---- MODULE Spec2Model ----
(***************************************************************************)
(* State-machine model of the CephFS journal tool:                         *)
(*   - JournalScanner (src/mds/JournalTool.cc): scan(), scan_header(),     *)
(*     scan_events(), is_healthy();                                        *)
(*   - Dumper::undump (src/tools/cephfs/Dumper.cc).                        *)
(* The pool is a map from object names to objects; every object is read    *)
(* whole, from its first byte.  Bytes are small naturals, multi-byte       *)
(* integers are little-endian byte sequences.                              *)
(***************************************************************************)
EXTENDS Integers, Sequences, FiniteSets, TLC

(***************************************************************************)
(* Bounds of the model.                                                    *)
(***************************************************************************)
\* object size in bytes (g_conf->mds_log_segment_size, scaled down)
ObjectSize == 32
\* number of journal data objects the generated pools hold after the header object
NumDataObjects == 3
\* largest number of segments (frames or junk) laid out in a generated journal
MaxSegs == 3

(***************************************************************************)
(* Program constants.                                                      *)
(***************************************************************************)
\* sizeof(entry_sentinel), sizeof(entry_size), sizeof(start_ptr)
SentinelLen == 8
SizeLen == 4
PtrLen == 8
\* (uint64_t)-1, the initial gap_start and the open end of a Range
UINT64_MAX == -1
\* errno values a failed io.read returns (negated)
ENOENT == -2
EIO == -5
\* MDS_INO_LOG_OFFSET and the rank the scanner was constructed with
MDS_INO_LOG_OFFSET == 512
rank == 0
\* header = NULL, LogEvent::decode returning NULL
NULL == [null |-> TRUE]
CEPH_FS_ONDISK_MAGIC == "ceph fs volume v011"

\* Journaler::sentinel = 0x3141592653589793, as its 8 little-endian bytes
Sentinel == <<147, 151, 88, 83, 38, 89, 65, 49>>

(***************************************************************************)
(* Little-endian codecs (::encode / ::decode of uint32_t and uint64_t).    *)
(* Values stay far below 2^31; the high bytes are kept so that widths are  *)
(* the program's.                                                          *)
(***************************************************************************)
EncodeU32(n) == << n % 256, (n \div 256) % 256, (n \div 65536) % 256, 0 >>

DecodeU32(b) == b[1] + 256 * b[2] + 65536 * b[3] + 16777216 * b[4]

EncodeU64(n) == EncodeU32(n) \o <<0, 0, 0, 0>>

\* a value with a non-zero high half is no offset of the model: UINT64_MAX stands for it
DecodeU64(b) ==
  IF SubSeq(b, 5, 8) = <<0, 0, 0, 0>> THEN DecodeU32(SubSeq(b, 1, 4)) ELSE UINT64_MAX

\* the first n bytes of a bufferlist removed (bufferlist::splice(0, n))
Splice(buf, n) == SubSeq(buf, n + 1, Len(buf))

Min(a, b) == IF a < b THEN a ELSE b

Range(s) == { s[i] : i \in 1..Len(s) }

(***************************************************************************)
(* JournalScanner::obj_name: "%llx.%08llx" of (MDS_INO_LOG_OFFSET + rank,  *)
(* offset); the two printed fields are kept as a pair.                     *)
(***************************************************************************)
obj_name(offset) == << MDS_INO_LOG_OFFSET + rank, offset >>

(***************************************************************************)
(* LogEvent::decode: the pluggable payload decoder.  A payload decodes     *)
(* when it starts with a known event type tag; otherwise NULL.             *)
(***************************************************************************)
EvTag == 1
BadTag == 0

LogEventDecode(le_bl) ==
  IF Len(le_bl) > 0 /\ le_bl[1] = EvTag
    THEN [type |-> le_bl[1], raw |-> le_bl]
    ELSE NULL

(***************************************************************************)
(* Journaler::Header: the default-constructed header and the bytes of an   *)
(* encoded one.  An encoded header starts with the struct version bytes,   *)
(* never with the frame sentinel.                                          *)
(***************************************************************************)
DefaultHeader == [magic |-> "", trimmed_pos |-> 0, expire_pos |-> 0, write_pos |-> 0]

HeaderBlobLen == 14
TruncBlobLen == 4
HeaderBlob == [i \in 1..HeaderBlobLen |-> 1]
TruncBlob == [i \in 1..TruncBlobLen |-> 1]

(***************************************************************************)
(* Generated journals.  A journal is a list of segments written from       *)
(* stream offset ObjectSize on (object 0 holds the header):                *)
(*   good    a well-formed frame, 1-byte payload                           *)
(*   goodS   a well-formed frame whose payload contains the sentinel bytes *)
(*   badptr  correct sentinel, decodable payload, start_ptr off by one     *)
(*   undec   correct sentinel and start_ptr, payload the decoder rejects   *)
(*   junk    3 bytes that are no frame                                     *)
(*   huge    correct sentinel, a size field of four times the object size, *)
(*           and bytes up to one byte into the third object from its start *)
(***************************************************************************)
SegKinds == {"good", "goodS", "badptr", "undec", "junk", "huge"}

FrameBytes(payload, ptr) ==
  Sentinel \o EncodeU32(Len(payload)) \o payload \o EncodeU64(ptr)

SegBytes(kind, off) ==
  CASE kind = "good"   -> FrameBytes(<<EvTag>>, off)
    [] kind = "goodS"  -> FrameBytes(<<EvTag>> \o Sentinel, off)
    [] kind = "badptr" -> FrameBytes(<<EvTag>>, off + 1)
    [] kind = "undec"  -> FrameBytes(<<BadTag>>, off)
    [] kind = "junk"   -> <<0, 0, 0>>
    [] kind = "huge"   -> Sentinel \o EncodeU32(4 * ObjectSize)
                            \o [i \in 1..(2 * ObjectSize + 1 - SentinelLen - SizeLen) |-> 0]

RECURSIVE StreamBytes(_, _)
StreamBytes(lay, off) ==
  IF lay = <<>> THEN <<>>
  ELSE LET b == SegBytes(Head(lay), off)
       IN  b \o StreamBytes(Tail(lay), off + Len(b))

\* the stream offsets at which the segments of a layout begin, and its end
RECURSIVE Boundaries(_, _)
Boundaries(lay, off) ==
  IF lay = <<>> THEN <<off>>
  ELSE <<off>> \o Boundaries(Tail(lay), off + Len(SegBytes(Head(lay), off)))

JournalStart == ObjectSize
Capacity == NumDataObjects * ObjectSize

Layouts ==
  { lay \in UNION { [1..n -> SegKinds] : n \in 0..MaxSegs } :
      Len(StreamBytes(lay, JournalStart)) <= Capacity }

\* one failing object at most: idx = 0 is no fault
Faults ==
  { [idx |-> 0, err |-> 0] } \cup
  { [idx |-> i, err |-> e] : i \in 1..NumDataObjects, e \in {ENOENT, EIO} }

DataObjects == 1..NumDataObjects

\* the bytes of data object i: stream bytes [i*S, (i+1)*S) as far as written
ObjectBytes(data, i) ==
  SubSeq(data, (i - 1) * ObjectSize + 1, Min(i * ObjectSize, Len(data)))

\* the pool's objects: the header object, the first journal object (it exists from
\* the creation of the journal on) and every later object that was written to
MakePool(lay, f, hbytes, herr) ==
  LET data == StreamBytes(lay, JournalStart)
  IN  [ n \in { obj_name(i) : i \in 0..NumDataObjects } |->
          LET i == n[2] IN
          IF i = 0 THEN [err |-> herr, bytes |-> hbytes]
          ELSE IF f.idx = i THEN [err |-> f.err, bytes |-> <<>>]
          ELSE IF (i - 1) * ObjectSize >= Len(data) /\ i > 1
                 THEN [err |-> ENOENT, bytes |-> <<>>]
          ELSE [err |-> 0, bytes |-> ObjectBytes(data, i)] ]

\* what the header object decodes to: valid headers over the layout's frame
\* boundaries, and the corrupt ones
HeaderChoices(lay) ==
  LET bs   == Boundaries(lay, JournalStart)
      n    == Len(bs)
      last == bs[n]
      exps == { bs[i] : i \in 1..Min(2, n) }
      wrs  == { bs[i] : i \in { j \in 1..n : j >= n - 1 } }
  IN  { [decodes |-> TRUE, magic |-> CEPH_FS_ONDISK_MAGIC,
         trimmed_pos |-> JournalStart, expire_pos |-> p[1], write_pos |-> p[2]] :
           p \in { q \in exps \X wrs : q[1] <= q[2] } }
      \cup
      { [decodes |-> TRUE, magic |-> "bad magic",
         trimmed_pos |-> JournalStart, expire_pos |-> JournalStart, write_pos |-> last],
        [decodes |-> TRUE, magic |-> CEPH_FS_ONDISK_MAGIC,
         trimmed_pos |-> last + 1, expire_pos |-> JournalStart, write_pos |-> last],
        [decodes |-> TRUE, magic |-> CEPH_FS_ONDISK_MAGIC,
         trimmed_pos |-> JournalStart, expire_pos |-> last + 1, write_pos |-> last],
        [decodes |-> FALSE, magic |-> "", trimmed_pos |-> 0, expire_pos |-> 0,
         write_pos |-> 0] }

(***************************************************************************)
(* State.                                                                  *)
(***************************************************************************)
VARIABLES
  \* the environment: the pool, what the bytes of the header object decode to,
  \* and the results of rados.init_with_context and rados.pool_reverse_lookup
  pool, header_obj, rados_r, lookup_r,
  \* JournalScanner's fields
  header_present, header_valid, header,
  objects_missing, objects_valid, ranges_invalid, events_valid, events,
  \* the locals of scan_events
  read_offset, read_buf, gap, gap_start, obj_offset,
  \* position in scan(), its local r (the value it returns once pc = "done"),
  \* the results of the io.read calls made, and the messages written by dout/derr
  pc, ret, reads, log,
  \* the report of the first scan() once scan() is called a second time on the
  \* same scanner, NULL before
  first

VARIABLES
  \* Dumper::undump: the dump file (whether open and safe_read succeed, and its
  \* first 200 bytes), the position in undump, the locals buf, start, len, h, pos,
  \* left and done, the operations issued to the objecter in order, and those of
  \* them whose completion callback has not run yet
  dump_file, u_pc, buf, start, len, h, pos, left, done, issued, inflight

VARIABLES
  \* Dumper::dump: the journal of the pool that is dumped (its range, its bytes,
  \* and the results of recovery, of the range read and of the file calls), and
  \* the number of bytes in the bufferlist bl filled by the range read
  journal, bl

envVars == << pool, header_obj, rados_r, lookup_r >>
reportVars == << header_present, header_valid, header,
                 objects_missing, objects_valid, ranges_invalid, events_valid, events >>
localVars == << read_offset, read_buf, gap, gap_start, obj_offset >>
scanVars == << envVars, reportVars, localVars, pc, ret, reads, log, first >>
dumpVars == << dump_file, u_pc, buf, start, len, h, pos, left, done, issued, inflight,
              journal, bl >>
vars == << scanVars, dumpVars >>

\* io.read(name, bl, INT_MAX, 0): the whole object from its first byte; the result
\* is the number of bytes read or a negative errno
IoRead(name) ==
  IF name \in DOMAIN pool
    THEN IF pool[name].err < 0
           THEN [r |-> pool[name].err, bl |-> <<>>]
           ELSE [r |-> Len(pool[name].bytes), bl |-> pool[name].bytes]
    ELSE [r |-> ENOENT, bl |-> <<>>]

\* 1 MiB
MiB == 1048576

\* (mutant: is_healthy without the test of objects_missing)
is_healthy_IgnoresMissing ==
  header_present /\ header_valid /\ ranges_invalid = <<>>

\* JournalScanner::is_healthy
is_healthy ==
  header_present /\ header_valid /\ ranges_invalid = <<>> /\ objects_missing = <<>>

\* a freshly constructed JournalScanner that has not scanned yet
FreshScanner ==
  /\ header_present = FALSE
  /\ header_valid = FALSE
  /\ header = NULL
  /\ objects_missing = <<>>
  /\ objects_valid = <<>>
  /\ ranges_invalid = <<>>
  /\ events_valid = <<>>
  /\ events = << >>
  /\ read_offset = 0
  /\ read_buf = <<>>
  /\ gap = FALSE
  /\ gap_start = UINT64_MAX
  /\ obj_offset = 0
  /\ pc = "scan"
  /\ ret = 0
  /\ reads = <<>>
  /\ log = <<>>
  /\ first = NULL


(***************************************************************************)
(* Dumper: the text of the 200-byte preamble.  A char is a one-character   *)
(* string; NUL and EOT stand for the bytes 0 and 4.                        *)
(***************************************************************************)
PreambleLen == 200
\* (mutant: chunks of 2 MiB)
ChunkSize_Double == 2 * 1048576

\* MIN(left, 1024*1024): the size of one chunk written by undump
ChunkSize == 1048576
\* largest number of chunks an undumped journal of the model needs
MaxChunks == 2

NUL == "NUL"
EOT == "EOT"
DecDigits == << "0", "1", "2", "3", "4", "5", "6", "7", "8", "9" >>
HexDigits == DecDigits \o << "a", "b", "c", "d", "e", "f" >>
WhiteSpace == { " ", "\n", "\t" }

\* printf's %llu and %llx
RECURSIVE Dec(_)
Dec(n) == IF n < 10 THEN << DecDigits[n + 1] >>
          ELSE Dec(n \div 10) \o << DecDigits[(n % 10) + 1] >>

RECURSIVE Hex(_)
Hex(n) == IF n < 16 THEN << HexDigits[n + 1] >>
          ELSE Hex(n \div 16) \o << HexDigits[(n % 16) + 1] >>

KwStart == << "s", "t", "a", "r", "t", " ", "o", "f", "f", "s", "e", "t" >>
KwLength == << "l", "e", "n", "g", "t", "h" >>

\* memset(buf, 0, 200) and sprintf(buf, "Ceph mds%d journal dump\n start offset
\* %llu (0x%llx)\n       length %llu (0x%llx)\n%c", rank, start, start, len, len, 4)
PreambleText(rk, s, l) ==
  LET text == << "C", "e", "p", "h", " ", "m", "d", "s" >> \o Dec(rk)
              \o << " ", "j", "o", "u", "r", "n", "a", "l", " ", "d", "u", "m", "p", "\n" >>
              \o << " " >> \o KwStart \o << " " >> \o Dec(s)
              \o << " ", "(", "0", "x" >> \o Hex(s) \o << ")", "\n" >>
              \o << " ", " ", " ", " ", " ", " ", " " >> \o KwLength \o << " " >> \o Dec(l)
              \o << " ", "(", "0", "x" >> \o Hex(l) \o << ")", "\n", EOT >>
  IN  [i \in 1..PreambleLen |-> IF i <= Len(text) THEN text[i] ELSE NUL]

\* the C string held by a char buffer: the chars before the first NUL
CStrLen(b) ==
  IF \E i \in 1..Len(b) : b[i] = NUL
    THEN (CHOOSE i \in 1..Len(b) : b[i] = NUL /\ \A k \in 1..(i - 1) : b[k] # NUL) - 1
    ELSE Len(b)

\* strstr(b, needle): the index of the first occurrence, 0 for NULL
StrStr(b, needle) ==
  LET n == Len(needle)
      hits == { i \in 1..(CStrLen(b) - n + 1) : SubSeq(b, i, i + n - 1) = needle }
  IN  IF hits = {} THEN 0 ELSE CHOOSE i \in hits : \A k \in hits : i <= k

\* sscanf's %llu at index i of b: white space is skipped, then the longest run of
\* decimal digits is converted; no digit, no conversion
RECURSIVE SkipWhite(_, _)
SkipWhite(b, i) ==
  IF i <= Len(b) /\ b[i] \in WhiteSpace THEN SkipWhite(b, i + 1) ELSE i

IsDigit(c) == \E d \in 1..10 : DecDigits[d] = c
DigitValue(c) == (CHOOSE d \in 1..10 : DecDigits[d] = c) - 1

RECURSIVE DigitRun(_, _, _)
DigitRun(b, i, acc) ==
  IF i <= Len(b) /\ IsDigit(b[i]) THEN DigitRun(b, i + 1, acc * 10 + DigitValue(b[i]))
  ELSE acc

\* sscanf(strstr(b, kw), "<kw> %llu", &v): [ptr: strstr's result, ok: a value was
\* converted, val: the value]
ScanField(b, kw) ==
  LET at == StrStr(b, kw)
      i  == SkipWhite(b, at + Len(kw))
  IN  IF at = 0 THEN [ptr |-> 0, ok |-> FALSE, val |-> 0]
      ELSE IF i <= Len(b) /\ IsDigit(b[i])
             THEN [ptr |-> at, ok |-> TRUE, val |-> DigitRun(b, i, 0)]
             ELSE [ptr |-> at, ok |-> FALSE, val |-> 0]

\* the values an uninitialised start or len may hold
GarbageValues == {0, 5}

(***************************************************************************)
(* The dump files undump is run on: the preambles dump writes, the same    *)
(* with a label damaged or a number missing, and files that cannot be      *)
(* opened or read.                                                         *)
(***************************************************************************)
DumpStarts == {PreambleLen, 2 * PreambleLen}
DumpLengths ==
  {0, 5} \cup { k * ChunkSize + 5 : k \in 1..(MaxChunks - 1) } \cup { MaxChunks * ChunkSize }

\* text with the char at index i overwritten
Overwrite(text, i, c) == [text EXCEPT ![i] = c]

Damaged(text) ==
  LET ps == StrStr(text, KwStart)
      pl == StrStr(text, KwLength)
  IN  { Overwrite(text, ps, "X"),
        Overwrite(text, pl, "X"),
        Overwrite(Overwrite(text, ps, "X"), pl, "X"),
        \* the label is there, the number after it is not
        Overwrite(text, ps + Len(KwStart) + 1, "?"),
        Overwrite(text, pl + Len(KwLength) + 1, "?") }

DumpFiles ==
  LET good == { PreambleText(rank, s, l) : s \in DumpStarts, l \in DumpLengths }
  IN  { [fd |-> 3, rd |-> PreambleLen, text |-> t] :
          t \in good \cup UNION { Damaged(t2) : t2 \in good } }
      \cup { [fd |-> -1, rd |-> 0, text |-> PreambleText(rank, PreambleLen, 0)],
             [fd |-> 3, rd |-> EIO, text |-> PreambleText(rank, PreambleLen, 0)] }

\* undump has not been called
DumperIdle ==
  /\ dump_file = [fd |-> -1, rd |-> 0, text |-> <<>>]
  /\ u_pc = "idle"
  /\ buf = <<>>
  /\ start = 0
  /\ len = 0
  /\ h = NULL
  /\ pos = 0
  /\ left = 0
  /\ done = FALSE
  /\ issued = <<>>
  /\ inflight = {}
  /\ journal = NULL
  /\ bl = 0

Init ==
  /\ DumperIdle
  /\ \/ /\ rados_r = 0
        /\ lookup_r = 0
        /\ \E lay \in Layouts, f \in Faults :
             \/ \E hc \in HeaderChoices(lay) :
                  /\ header_obj = hc
                  /\ pool = MakePool(lay, f, IF hc.decodes THEN HeaderBlob ELSE TruncBlob, 0)
             \/ \E herr \in {ENOENT, EIO} :
                  /\ header_obj = DefaultHeader @@ [decodes |-> FALSE]
                  /\ pool = MakePool(lay, f, <<>>, herr)
     \/ /\ \E p \in { << EIO, 0 >>, << 0, ENOENT >> } :
             /\ rados_r = p[1]
             /\ lookup_r = p[2]
        /\ header_obj = DefaultHeader @@ [decodes |-> FALSE]
        /\ pool = MakePool(<<>>, [idx |-> 0, err |-> 0], TruncBlob, 0)
  /\ FreshScanner

(***************************************************************************)
(* JournalScanner::scan, up to the call of scan_header: connect to RADOS   *)
(* and resolve the pool.                                                   *)
(***************************************************************************)
ScanConnect ==
  /\ pc = "scan"
  /\ IF rados_r < 0 THEN /\ ret' = rados_r
                         /\ pc' = "done"
     ELSE IF lookup_r < 0 THEN /\ ret' = lookup_r
                               /\ pc' = "done"
     ELSE /\ pc' = "scan_header"
          /\ ret' = ret
  /\ UNCHANGED << envVars, reportVars, localVars, reads, log, dumpVars, first >>

(***************************************************************************)
(* JournalScanner::scan_header.  Every path returns 0, so scan() goes on   *)
(* to scan_events.                                                         *)
(***************************************************************************)
\* Journaler::Header::decode of the header object's bytes: the decoded header, or
\* the default-constructed one when decode throws
HeaderDecode ==
  IF header_obj.decodes
    THEN [magic |-> header_obj.magic, trimmed_pos |-> header_obj.trimmed_pos,
          expire_pos |-> header_obj.expire_pos, write_pos |-> header_obj.write_pos]
    ELSE DefaultHeader

\* one line of debug output: the message and the value printed with it
Msg(m, v) == [msg |-> m, at |-> v]

\* (mutant: the offsets test without trimmed_pos)
HeaderOffsetsOk_NoTrimmed(hd) == hd.expire_pos <= hd.write_pos

HeaderOffsetsOk(hd) == hd.trimmed_pos <= hd.expire_pos /\ hd.expire_pos <= hd.write_pos

scan_header ==
  /\ pc = "scan_header"
  /\ LET rd == IoRead(obj_name(0)) IN
     /\ reads' = Append(reads, << obj_name(0), rd.r >>)
     /\ IF rd.r < 0
          THEN /\ log' = Append(log, Msg("Header is unreadable", obj_name(0)))
               /\ UNCHANGED << header_present, header, header_valid >>
          ELSE /\ header_present' = TRUE
               /\ header' = HeaderDecode
               /\ header_valid' = /\ header_obj.decodes
                                  /\ HeaderDecode.magic = CEPH_FS_ONDISK_MAGIC
                                  /\ HeaderOffsetsOk(HeaderDecode)
               /\ log' = IF ~header_obj.decodes
                            THEN Append(log, Msg("Header is corrupt", "decode"))
                          ELSE IF HeaderDecode.magic # CEPH_FS_ONDISK_MAGIC
                            THEN Append(log, Msg("Header is corrupt", "bad magic"))
                          ELSE IF ~HeaderOffsetsOk(HeaderDecode)
                            THEN Append(log, Msg("Header is corrupt", "inconsistent offsets"))
                          ELSE log
  /\ pc' = "scan_events"
  /\ UNCHANGED << envVars, localVars, ret, dumpVars, first,
                  objects_missing, objects_valid, ranges_invalid, events_valid, events >>

(***************************************************************************)
(* JournalScanner::scan_events.                                            *)
(***************************************************************************)
\* the object indices of the for loop: read_offset / object_size up to and
\* including header->write_pos / object_size
FirstObject(hd) == hd.expire_pos \div ObjectSize

\* (mutant: the loop condition written with < instead of <=)
LastObject_Exclusive(hd) == (hd.write_pos \div ObjectSize) - 1

LastObject(hd) == hd.write_pos \div ObjectSize

\* the values a read through the NULL header may yield when it does not trap
GarbageHeaders ==
  { [magic |-> "", trimmed_pos |-> 0, expire_pos |-> e, write_pos |-> ObjectSize] :
      e \in {0, ObjectSize} }

\* entry to scan_events: the locals are initialised from *header.  After a failed
\* header read header is NULL and the dereference is undefined: the process
\* traps, or goes on with whatever the read yields.
ScanEventsBegin ==
  /\ pc = "scan_events"
  /\ \/ /\ header # NULL
        /\ header' = header
        /\ pc' = "for"
     \/ /\ header = NULL
        /\ pc' = "crashed"
        /\ header' = header
     \/ /\ header = NULL
        /\ header' \in GarbageHeaders
        /\ pc' = "for"
  /\ read_offset' = IF pc' = "for" THEN header'.expire_pos ELSE read_offset
  /\ obj_offset' = IF pc' = "for" THEN FirstObject(header') ELSE obj_offset
  /\ read_buf' = <<>>
  /\ gap' = FALSE
  /\ gap_start' = UINT64_MAX
  /\ UNCHANGED << envVars, ret, reads, log, header_present, header_valid, dumpVars, first,
                  objects_missing, objects_valid, ranges_invalid, events_valid, events >>

\* one iteration of the for loop up to the parsing of events: read the object,
\* append it to read_buf, record it as missing or valid; a valid object read
\* while a gap is open hits assert(0)
ReadObject ==
  /\ pc = "for"
  /\ obj_offset <= LastObject(header)
  /\ LET rd == IoRead(obj_name(obj_offset)) IN
     /\ reads' = Append(reads, << obj_name(obj_offset), rd.r >>)
     /\ read_buf' = read_buf \o rd.bl
     /\ IF rd.r < 0
          THEN /\ log' = Append(log, Msg("Missing object", obj_name(obj_offset)))
               /\ objects_missing' = Append(objects_missing, obj_offset)
               /\ gap' = TRUE
               /\ gap_start' = read_offset
               /\ obj_offset' = obj_offset + 1
               /\ pc' = "for"
               /\ UNCHANGED objects_valid
          ELSE /\ objects_valid' = Append(objects_valid, obj_name(obj_offset))
               /\ pc' = IF gap THEN "aborted" ELSE "while"
               /\ UNCHANGED << objects_missing, gap, gap_start, obj_offset, log >>
  /\ UNCHANGED << envVars, ret, read_offset, header_present, header_valid, header,
                  ranges_invalid, events_valid, events, dumpVars, first >>

\* the length of a whole entry with the given payload length
EntryLen(entry_size) == SentinelLen + SizeLen + entry_size + PtrLen

\* leaving the while loop ends the iteration of the for loop: obj_offset++
Break ==
  /\ pc' = "for"
  /\ obj_offset' = obj_offset + 1

\* one iteration of the while loop that consumes the available events
ParseEntry ==
  /\ pc = "while"
  /\ IF Len(read_buf) < SentinelLen + SizeLen
       THEN \* out of data, continue to read the next object
            /\ Break
            /\ UNCHANGED << read_buf, read_offset, gap, gap_start, events, events_valid, log >>
       ELSE
         LET entry_sentinel == SubSeq(read_buf, 1, SentinelLen)
             entry_size == DecodeU32(SubSeq(read_buf, SentinelLen + 1, SentinelLen + SizeLen))
         IN
         IF entry_sentinel # Sentinel
           THEN \* invalid sentinel
                /\ log' = Append(log, Msg("Invalid sentinel", read_offset))
                /\ gap' = TRUE
                /\ gap_start' = read_offset
                /\ Break
                /\ UNCHANGED << read_buf, read_offset, events, events_valid >>
           ELSE
             IF Len(read_buf) >= EntryLen(entry_size)
               THEN
                 LET le_bl == SubSeq(read_buf, SentinelLen + SizeLen + 1,
                                     SentinelLen + SizeLen + entry_size)
                     le == LogEventDecode(le_bl)
                 IN
                 \* the four splices: sentinel, size, payload, start_ptr (dropped unread)
                 /\ read_buf' = Splice(read_buf, EntryLen(entry_size))
                 /\ IF le # NULL
                      THEN /\ log' = log \o << Msg("Attempting decode", read_offset),
                                              Msg("Valid entry", read_offset) >>
                           /\ events' = (read_offset :> le) @@ events
                           /\ events_valid' = Append(events_valid, read_offset)
                           /\ read_offset' = read_offset + EntryLen(entry_size)
                           /\ UNCHANGED << gap, gap_start >>
                      ELSE /\ log' = log \o << Msg("Attempting decode", read_offset),
                                              Msg("Invalid entry", read_offset) >>
                           /\ read_offset' = read_offset + 1
                           /\ gap' = TRUE
                           /\ gap_start' = read_offset + 1
                           /\ UNCHANGED << events, events_valid >>
                 /\ UNCHANGED << pc, obj_offset >>
               ELSE \* out of data, continue to read the next object
                    /\ Break
                    /\ UNCHANGED << read_buf, read_offset, gap, gap_start, events,
                                    events_valid, log >>
  /\ UNCHANGED << envVars, ret, reads, header_present, header_valid, header,
                  objects_missing, objects_valid, ranges_invalid, dumpVars, first >>

\* (mutant: the end of scan_events without the push of the open gap)
ScanEventsEnd_NoRange ==
  /\ pc = "for"
  /\ obj_offset > LastObject(header)
  /\ ret' = 0
  /\ pc' = "done"
  /\ UNCHANGED << envVars, localVars, reads, log, header_present, header_valid, header,
                  objects_missing, objects_valid, events_valid, events, dumpVars, first,
                  ranges_invalid >>

\* after the for loop: a gap that is still open is assumed to run to the end
ScanEventsEnd ==
  /\ pc = "for"
  /\ obj_offset > LastObject(header)
  /\ ranges_invalid' = IF gap THEN Append(ranges_invalid, << gap_start, UINT64_MAX >>)
                              ELSE ranges_invalid
  /\ ret' = 0
  /\ pc' = "done"
  /\ UNCHANGED << envVars, localVars, reads, log, header_present, header_valid, header,
                  objects_missing, objects_valid, events_valid, events, dumpVars, first >>

Next ==
  \/ ScanConnect
  \/ scan_header
  \/ ScanEventsBegin
  \/ ReadObject
  \/ ParseEntry
  \/ ScanEventsEnd

Spec == Init /\ [][Next]_vars

(***************************************************************************)
(* scan() called a second time on the same scanner, the pool unchanged.    *)
(***************************************************************************)
\* the HealthReport: the scanner's public fields
Report ==
  [header_present |-> header_present, header_valid |-> header_valid,
   objects_missing |-> objects_missing, objects_valid |-> objects_valid,
   ranges_invalid |-> ranges_invalid, events_valid |-> events_valid,
   events |-> DOMAIN events]

\* the second call: the fields keep what the first scan left in them (header is
\* still NULL when no header was read); r, the reads and the output start anew
Rescan ==
  /\ pc = "done"
  /\ first = NULL
  /\ first' = Report
  /\ pc' = "scan"
  /\ ret' = 0
  /\ reads' = <<>>
  /\ log' = <<>>
  /\ header' = IF header_present THEN header ELSE NULL
  /\ UNCHANGED << envVars, localVars, dumpVars, header_present, header_valid,
                  objects_missing, objects_valid, ranges_invalid, events_valid, events >>

NextRescan ==
  \/ Next
  \/ Rescan

SpecRescan == Init /\ [][NextRescan]_vars

(***************************************************************************)
(* Dumper::undump.  The calling thread runs the Undump* actions; the       *)
(* objecter's worker thread runs WriteComplete, the C_SafeCond callback of *)
(* an operation that was issued.                                           *)
(***************************************************************************)
\* ::open(dump_file, O_RDONLY)
UndumpOpen ==
  /\ u_pc = "open"
  /\ u_pc' = IF dump_file.fd < 0 THEN "returned" ELSE "read"
  /\ UNCHANGED << dump_file, buf, start, len, h, pos, left, done, issued, inflight >>
  /\ UNCHANGED << scanVars, journal, bl >>

\* safe_read(fd, buf, sizeof(buf)); a failed read closes the file and returns
UndumpRead ==
  /\ u_pc = "read"
  /\ IF dump_file.rd < 0
       THEN /\ u_pc' = "returned"
            /\ buf' = buf
       ELSE /\ u_pc' = "parse"
            /\ buf' = SubSeq(dump_file.text, 1, PreambleLen)
  /\ UNCHANGED << dump_file, start, len, h, pos, left, done, issued, inflight >>
  /\ UNCHANGED << scanVars, journal, bl >>

\* the two sscanf calls.  strstr's result is passed on unchecked: for a label
\* that is not in buf sscanf gets NULL, which is undefined (the process traps,
\* or sscanf returns without a conversion); a variable that was not converted
\* keeps its uninitialised value
UndumpParse ==
  /\ u_pc = "parse"
  /\ LET fs == ScanField(buf, KwStart)
         fl == ScanField(buf, KwLength)
     IN  \/ /\ (fs.ptr = 0 \/ fl.ptr = 0)
            /\ u_pc' = "crashed"
            /\ UNCHANGED << start, len >>
         \/ /\ start' \in (IF fs.ok THEN {fs.val} ELSE GarbageValues)
            /\ len' \in (IF fl.ok THEN {fl.val} ELSE GarbageValues)
            /\ u_pc' = "write_header"
  /\ UNCHANGED << dump_file, buf, h, pos, left, done, issued, inflight >>
  /\ UNCHANGED << scanVars, journal, bl >>

\* the header built from start and len, and objecter->write_full of it to object 0
UndumpWriteHeader ==
  /\ u_pc = "write_header"
  /\ h' = [magic |-> CEPH_FS_ONDISK_MAGIC, trimmed_pos |-> start,
           expire_pos |-> start, write_pos |-> start + len]
  /\ done' = FALSE
  /\ issued' = Append(issued, [op |-> "write_full", oid |-> 0, h |-> h'])
  /\ inflight' = inflight \cup { Len(issued) + 1 }
  /\ u_pc' = "wait_header"
  /\ UNCHANGED << dump_file, buf, start, len, pos, left >>
  /\ UNCHANGED << scanVars, journal, bl >>

\* C_SafeCond::finish, run by the worker thread: *done = true and cond.Signal().
\* Once undump has returned, localLock, cond and done are gone and the callback's
\* use of them is undefined: the process traps or goes on.
WriteComplete ==
  /\ \E op \in inflight : inflight' = inflight \ {op}
  /\ IF u_pc = "returned"
       THEN /\ u_pc' \in {"returned", "crashed"}
            /\ done' = done
       ELSE /\ done' = TRUE
            /\ u_pc' = u_pc
  /\ UNCHANGED << dump_file, buf, start, len, h, pos, left, issued >>
  /\ UNCHANGED << scanVars, journal, bl >>

\* while (!done) cond.Wait(localLock); then pos = start, left = len
UndumpWaitHeader ==
  /\ u_pc = "wait_header"
  /\ done
  /\ pos' = start
  /\ left' = len
  /\ u_pc' = "loop"
  /\ UNCHANGED << dump_file, buf, start, len, h, done, issued, inflight >>
  /\ UNCHANGED << scanVars, journal, bl >>

\* one pass of while (left > 0) up to the wait: read l bytes of the file at pos
\* and issue filer.write(pos, l)
UndumpChunk ==
  /\ u_pc = "loop"
  /\ left > 0
  /\ LET l == Min(left, ChunkSize) IN
     /\ issued' = Append(issued, [op |-> "write", pos |-> pos, l |-> l])
     /\ inflight' = inflight \cup { Len(issued) + 1 }
  /\ u_pc' = "wait_chunk"
  /\ UNCHANGED << dump_file, buf, start, len, h, pos, left, done >>
  /\ UNCHANGED << scanVars, journal, bl >>

\* while (!done) cond.Wait(localLock); pos += l; left -= l.  done is not reset
\* between the operations.
UndumpWaitChunk ==
  /\ u_pc = "wait_chunk"
  /\ done
  /\ LET l == Min(left, ChunkSize) IN
     /\ pos' = pos + l
     /\ left' = left - l
  /\ u_pc' = "loop"
  /\ UNCHANGED << dump_file, buf, start, len, h, done, issued, inflight >>
  /\ UNCHANGED << scanVars, journal, bl >>

\* left == 0: close the file, print "done."
UndumpClose ==
  /\ u_pc = "loop"
  /\ left = 0
  /\ u_pc' = "returned"
  /\ UNCHANGED << dump_file, buf, start, len, h, pos, left, done, issued, inflight >>
  /\ UNCHANGED << scanVars, journal, bl >>

\* a scanner that is not used while undump runs
ScannerIdle ==
  /\ rados_r = 0
  /\ lookup_r = 0
  /\ header_obj = DefaultHeader @@ [decodes |-> FALSE]
  /\ pool = MakePool(<<>>, [idx |-> 0, err |-> 0], <<>>, ENOENT)
  /\ FreshScanner

InitUndump ==
  /\ ScannerIdle
  /\ dump_file \in DumpFiles
  /\ u_pc = "open"
  /\ buf = <<>>
  /\ start = 0
  /\ len = 0
  /\ h = NULL
  /\ pos = 0
  /\ left = 0
  /\ done = FALSE
  /\ issued = <<>>
  /\ inflight = {}
  /\ journal = NULL
  /\ bl = 0

NextUndump ==
  \/ UndumpOpen
  \/ UndumpRead
  \/ UndumpParse
  \/ UndumpWriteHeader
  \/ WriteComplete
  \/ UndumpWaitHeader
  \/ UndumpChunk
  \/ UndumpWaitChunk
  \/ UndumpClose

SpecUndump == InitUndump /\ [][NextUndump]_vars

\* the thread that called undump
UndumpCaller ==
  \/ UndumpOpen
  \/ UndumpRead
  \/ UndumpParse
  \/ UndumpWriteHeader
  \/ UndumpWaitHeader
  \/ UndumpChunk
  \/ UndumpWaitChunk
  \/ UndumpClose

\* both threads keep running: the caller takes its next step when it can, and
\* the objecter completes every operation it was given
SpecUndumpFair == SpecUndump /\ WF_vars(UndumpCaller) /\ WF_vars(WriteComplete)

(***************************************************************************)
(* Dumper::dump, followed by undump of the file it wrote.  The journal     *)
(* that is dumped is the range [s, e) of a stream whose byte at offset x   *)
(* is JournalByte(pat, x); got is the number of bytes the range read       *)
(* returns.                                                                *)
(***************************************************************************)
\* the longest journal range that is dumped
MaxJournalLen == 5

JournalByte(pat, x) == pat[(x % Len(pat)) + 1]

\* ranges that begin inside the preamble's 200 bytes (at its first byte, on the
\* label "start offset", on the digits after it) and behind it
JournalStarts == {0, 24, 37, PreambleLen, 2 * PreambleLen}
JournalLengths == {0, 2, MaxJournalLen}
JournalPatterns == { << "9" >>, << "a", "b" >>, << NUL >> }

Journals ==
  { [s |-> q[1], e |-> q[1] + q[2], pat |-> q[3], got |-> q[2] - q[4],
     rec_r |-> 0, fd |-> 3, wr |-> 0] :
      q \in { t \in JournalStarts \X JournalLengths \X JournalPatterns \X {0, 1} :
                t[4] <= t[2] } }
  \cup
  { [s |-> PreambleLen, e |-> PreambleLen + 2, pat |-> << "9" >>, got |-> 2,
     rec_r |-> f[1], fd |-> f[2], wr |-> f[3]] :
      f \in { << EIO, 3, 0 >>, << 0, -1, 0 >>, << 0, 3, EIO >> } }

\* journaler->recover(new C_SafeCond(&localLock, &cond, &done, &r))
DumpRecover ==
  /\ u_pc = "dump"
  /\ done' = FALSE
  /\ issued' = Append(issued, [op |-> "recover"])
  /\ inflight' = inflight \cup { Len(issued) + 1 }
  /\ u_pc' = "wait_recover"
  /\ UNCHANGED << dump_file, buf, start, len, h, pos, left, journal, bl >>
  /\ UNCHANGED scanVars

\* recover_journal: while (!done) cond.Wait(localLock); then r < 0 is returned and
\* dump returns; else start = get_read_pos(), len = get_write_pos() - start
DumpRecovered ==
  /\ u_pc = "wait_recover"
  /\ done
  /\ IF journal.rec_r < 0
       THEN /\ u_pc' = "dump_returned"
            /\ UNCHANGED << start, len >>
       ELSE /\ start' = journal.s
            /\ len' = journal.e - journal.s
            /\ u_pc' = "dump_read"
  /\ UNCHANGED << dump_file, buf, h, pos, left, done, issued, inflight, journal, bl >>
  /\ UNCHANGED scanVars

\* bool done = false of dump; filer.read(ino, layout, CEPH_NOSNAP, start, len, &bl, 0,
\* new C_SafeCond(&localLock, &cond, &done))
DumpRead ==
  /\ u_pc = "dump_read"
  /\ done' = FALSE
  /\ issued' = Append(issued, [op |-> "read", pos |-> start, l |-> len])
  /\ inflight' = inflight \cup { Len(issued) + 1 }
  /\ u_pc' = "wait_read"
  /\ UNCHANGED << dump_file, buf, start, len, h, pos, left, journal, bl >>
  /\ UNCHANGED scanVars

\* while (!done) cond.Wait(localLock); bl holds what the read returned
DumpReadDone ==
  /\ u_pc = "wait_read"
  /\ done
  /\ bl' = journal.got
  /\ u_pc' = "write_file"
  /\ UNCHANGED << dump_file, buf, start, len, h, pos, left, done, issued, inflight, journal >>
  /\ UNCHANGED scanVars

\* the first 200 bytes of the file dump writes: safe_write of the preamble at
\* offset 0, then lseek64(fd, start) and bl.write_fd(fd) over it
DumpedText(s, n, pat) ==
  LET pre == PreambleText(rank, s, n)
  IN  [i \in 1..PreambleLen |->
         IF s <= i - 1 /\ i - 1 < s + n THEN JournalByte(pat, i - 1) ELSE pre[i]]

\* open(dump_file, O_WRONLY|O_CREAT|O_TRUNC): on failure dump prints a message;
\* a failing safe_write is ceph_abort()
DumpWriteFile ==
  /\ u_pc = "write_file"
  /\ IF journal.fd < 0
       THEN /\ u_pc' = "dump_returned"
            /\ UNCHANGED dump_file
       ELSE IF journal.wr # 0
         THEN /\ u_pc' = "dump_aborted"
              /\ UNCHANGED dump_file
         ELSE /\ dump_file' = [fd |-> 3, rd |-> PreambleLen,
                               text |-> DumpedText(start, bl, journal.pat)]
              /\ u_pc' = "dumped"
  /\ UNCHANGED << buf, start, len, h, pos, left, done, issued, inflight, journal, bl >>
  /\ UNCHANGED scanVars

\* undump is called on the file that dump wrote
UndumpCall ==
  /\ u_pc = "dumped"
  /\ u_pc' = "open"
  /\ UNCHANGED << dump_file, buf, start, len, h, pos, left, done, issued, inflight,
                  journal, bl >>
  /\ UNCHANGED scanVars

InitDump ==
  /\ ScannerIdle
  /\ journal \in Journals
  /\ bl = 0
  /\ dump_file = [fd |-> -1, rd |-> 0, text |-> <<>>]
  /\ u_pc = "dump"
  /\ buf = <<>>
  /\ start = 0
  /\ len = 0
  /\ h = NULL
  /\ pos = 0
  /\ left = 0
  /\ done = FALSE
  /\ issued = <<>>
  /\ inflight = {}

NextDump ==
  \/ DumpRecover
  \/ DumpRecovered
  \/ DumpRead
  \/ DumpReadDone
  \/ DumpWriteFile
  \/ UndumpCall
  \/ NextUndump

SpecDump == InitDump /\ [][NextDump]_vars

(***************************************************************************)
(* The journal as it is stored: the pool's bytes by stream offset, and the *)
(* frames they hold.  These read the pool, not the scanner.                *)
(***************************************************************************)
HasByte(off) ==
  /\ obj_name(off \div ObjectSize) \in DOMAIN pool
  /\ pool[obj_name(off \div ObjectSize)].err = 0
  /\ off % ObjectSize < Len(pool[obj_name(off \div ObjectSize)].bytes)

PoolByte(off) == pool[obj_name(off \div ObjectSize)].bytes[(off % ObjectSize) + 1]

HasBytes(off, n) == \A k \in off..(off + n - 1) : HasByte(k)

Slice(off, n) == [k \in 1..n |-> PoolByte(off + k - 1)]

SentinelAt(x) == HasBytes(x, SentinelLen + SizeLen) /\ Slice(x, SentinelLen) = Sentinel
SizeAt(x) == DecodeU32(Slice(x + SentinelLen, SizeLen))
CompleteAt(x) == SentinelAt(x) /\ HasBytes(x, EntryLen(SizeAt(x)))
PayloadAt(x) == Slice(x + SentinelLen + SizeLen, SizeAt(x))
StartPtrAt(x) == DecodeU64(Slice(x + SentinelLen + SizeLen + SizeAt(x), PtrLen))

\* a well-formed frame begins at stream offset x
WellFormedFrameAt(x) ==
  /\ CompleteAt(x)
  /\ LogEventDecode(PayloadAt(x)) # NULL
  /\ StartPtrAt(x) = x

\* the bytes from off up to wp are exactly consecutive well-formed frames
RECURSIVE WellFormedFrom(_, _)
WellFormedFrom(off, wp) ==
  \/ off = wp
  \/ /\ off < wp
     /\ WellFormedFrameAt(off)
     /\ WellFormedFrom(off + EntryLen(SizeAt(off)), wp)

\* the stream offsets at which those frames begin
RECURSIVE FrameStarts(_, _)
FrameStarts(off, wp) ==
  IF off >= wp THEN {}
  ELSE {off} \cup FrameStarts(off + EntryLen(SizeAt(off)), wp)

\* the header object is readable and holds a valid header
ValidHeaderObject ==
  /\ rados_r = 0 /\ lookup_r = 0
  /\ pool[obj_name(0)].err = 0
  /\ header_obj.decodes
  /\ header_obj.magic = CEPH_FS_ONDISK_MAGIC
  /\ header_obj.trimmed_pos <= header_obj.expire_pos
  /\ header_obj.expire_pos <= header_obj.write_pos

\* every object of the scanned range is present
RangePresent ==
  \A i \in (header_obj.expire_pos \div ObjectSize)..(header_obj.write_pos \div ObjectSize) :
     obj_name(i) \in DOMAIN pool /\ pool[obj_name(i)].err = 0

Stopped == pc \in {"done", "aborted", "crashed"}

\* the messages that open a gap, and the position of the first of them in the log
OpensGap(m) == m.msg \in {"Missing object", "Invalid sentinel", "Invalid entry"}
GapEntries == { j \in 1..Len(log) : OpensGap(log[j]) }
FirstGapEntry == CHOOSE j \in GapEntries : \A k \in GapEntries : j <= k

\* the rolling buffer starts at the byte stored at expire_pos
StartsInSync == header_obj.expire_pos % ObjectSize = 0

StrictlyIncreasing(q) == \A i, j \in 1..Len(q) : i < j => q[i] < q[j]

(***************************************************************************)
(* C1: on a pool with a valid header, every object of the scanned range    *)
(* present and the bytes from expire_pos to write_pos being exactly n >= 0 *)
(* well-formed frames, scan() returns 0 with events keyed by exactly the   *)
(* offsets at which the frames begin, ranges_invalid empty and             *)
(* is_healthy() true.                                                      *)
(***************************************************************************)
C1_Pre ==
  /\ ValidHeaderObject
  /\ RangePresent
  /\ WellFormedFrom(header_obj.expire_pos, header_obj.write_pos)

C1_WellFormedScan ==
  C1_Pre =>
    /\ pc \notin {"aborted", "crashed"}
    /\ pc = "done" =>
         /\ ret = 0
         /\ DOMAIN events = FrameStarts(header_obj.expire_pos, header_obj.write_pos)
         /\ ranges_invalid = <<>>
         /\ is_healthy

(***************************************************************************)
(* C2: after a scan() that returns (here: of a journal with a valid         *)
(* header), the event offsets are strictly increasing in insertion order   *)
(* and every key k of events satisfies                                     *)
(* header.expire_pos <= k < header.write_pos.                              *)
(***************************************************************************)
C2_EventsWithinHeader ==
  (pc = "done" /\ header_valid) =>
    /\ StrictlyIncreasing(events_valid)
    /\ DOMAIN events = Range(events_valid)
    /\ \A k \in DOMAIN events : header.expire_pos <= k /\ k < header.write_pos

(***************************************************************************)
(* C3: when the header object is missing, or is present but fails          *)
(* decoding, the magic check or trimmed_pos <= expire_pos <= write_pos,    *)
(* scan() returns 0 with header_present / header_valid set accordingly     *)
(* and no event scanning performed: events, events_valid, objects_missing, *)
(* objects_valid and ranges_invalid are empty and is_healthy() is false.   *)
(***************************************************************************)
C3_Pre ==
  /\ rados_r = 0 /\ lookup_r = 0
  /\ pool[obj_name(0)].err \in {0, ENOENT}
  /\ ~ValidHeaderObject

C3_BadHeaderEmptyReport ==
  C3_Pre =>
    /\ pc \notin {"aborted", "crashed"}
    /\ Len(reads) <= 1
    /\ pc = "done" =>
         /\ ret = 0
         /\ header_present = (pool[obj_name(0)].err = 0)
         /\ ~header_valid
         /\ DOMAIN events = {}
         /\ events_valid = <<>>
         /\ objects_missing = <<>>
         /\ objects_valid = <<>>
         /\ ranges_invalid = <<>>
         /\ ~is_healthy

(***************************************************************************)
(* C4: a read that fails with an error other than not-found, on the header *)
(* object or a journal object, makes scan() return an error; only          *)
(* not-found is recorded as a data condition (header_present = false, or   *)
(* the index in objects_missing) with scan() returning success.            *)
(***************************************************************************)
IoErrorReads == { j \in 1..Len(reads) : reads[j][2] < 0 /\ reads[j][2] # ENOENT }
NotFoundReads == { j \in 1..Len(reads) : reads[j][2] = ENOENT }

C4_IoErrorAborts ==
  /\ IoErrorReads # {} =>
        \* the failed read is the last one, and the scan ends with an error return
        /\ \A j \in IoErrorReads : j = Len(reads)
        /\ Stopped => (pc = "done" /\ ret < 0)
  \* what is recorded as missing was read as not-found
  /\ \A j \in 2..Len(reads) :
        reads[j][1][2] \in Range(objects_missing) => reads[j][2] = ENOENT
  /\ (pc = "done" /\ ret = 0) => IoErrorReads = {}

(***************************************************************************)
(* C5: when object i of the scanned range is missing and no gap is open    *)
(* yet, scan() does not abort: it returns 0, records i in objects_missing, *)
(* and ranges_invalid holds exactly one range for the hole, starting at    *)
(* i * ObjectSize and ending at a later resync point or at infinity.       *)
(***************************************************************************)
\* object i is not in the pool, its first byte lies in the scanned range, and its
\* absence is the first thing to open a gap
C5_Pre(i) ==
  /\ header_valid
  /\ IoRead(obj_name(i)).r = ENOENT
  /\ i * ObjectSize >= header.expire_pos
  /\ GapEntries # {}
  /\ log[FirstGapEntry].msg = "Missing object"
  /\ log[FirstGapEntry].at = obj_name(i)

C5_MissingObjectGap ==
  \A i \in 0..(NumDataObjects + 1) :
    C5_Pre(i) =>
      /\ pc # "aborted"
      /\ i \in Range(objects_missing)
      /\ pc = "done" =>
            /\ ret = 0
            /\ Len(ranges_invalid) = 1
            /\ ranges_invalid[1][1] = i * ObjectSize
            /\ \/ ranges_invalid[1][2] = UINT64_MAX
               \/ ranges_invalid[1][2] > i * ObjectSize

(***************************************************************************)
(* C6: a frame with a correct sentinel and a decodable payload whose       *)
(* start_ptr differs from the offset x at which it begins is never         *)
(* recorded in events or events_valid; it is reported as a bad frame, a    *)
(* gap starting at x is opened and the cursor advances by exactly 1 byte.  *)
(* The frames looked at are those the scanner decodes before any gap, in a *)
(* scan whose buffer starts at expire_pos: there the cursor is the frame's *)
(* own offset.                                                             *)
(***************************************************************************)
BadStartPtrFrameAt(x) ==
  /\ CompleteAt(x)
  /\ LogEventDecode(PayloadAt(x)) # NULL
  /\ StartPtrAt(x) # x

\* the j-th message is written with the cursor at the true offset of the bytes parsed
InSyncAt(j) ==
  /\ header_valid
  /\ StartsInSync
  /\ \A k \in GapEntries : k > j

C6_BadStartPtrRejected ==
  \A j \in 1..Len(log) :
    (log[j].msg = "Attempting decode" /\ InSyncAt(j) /\ BadStartPtrFrameAt(log[j].at)) =>
      LET x == log[j].at IN
      /\ log[j + 1] = Msg("Invalid entry", x)
      /\ x \notin DOMAIN events
      /\ x \notin Range(events_valid)
      /\ j + 1 = Len(log) => (gap /\ gap_start = x /\ read_offset = x + 1)

(***************************************************************************)
(* C7: after a gap is opened the scanner searches forward for the          *)
(* sentinel; it resumes recording events at a candidate offset c only if   *)
(* the frame at c has start_ptr = c, and then the gap is closed as         *)
(* [gap_start, c).                                                         *)
(***************************************************************************)
C7_ResyncSound ==
  (header_valid /\ IoErrorReads = {} /\ GapEntries # {}) =>
    \* the search goes on: the scan does not abort
    /\ pc # "aborted"
    \* an event recorded after the gap was opened sits on a frame whose start_ptr
    \* is its own offset, and the gap before it is closed there
    /\ \A j \in 1..Len(log) :
         (log[j].msg = "Valid entry" /\ j > FirstGapEntry) =>
            LET c == log[j].at IN
            /\ CompleteAt(c)
            /\ StartPtrAt(c) = c
            /\ \E g \in 1..Len(ranges_invalid) : ranges_invalid[g][2] = c

(***************************************************************************)
(* C8: when the payload decoder rejects the frame that begins at x, no     *)
(* event is recorded at x, a gap beginning at x is opened, the cursor      *)
(* advances by 1 byte and no further frame is accepted until a resync      *)
(* succeeds; every event recorded after the failure is keyed by the true   *)
(* stream offset of its own sentinel.                                      *)
(***************************************************************************)
C8_DecodeFailure ==
  \A j \in 1..Len(log) :
    (log[j].msg = "Invalid entry" /\ InSyncAt(j - 1)) =>
      LET x == log[j].at IN
      /\ x \notin DOMAIN events
      /\ j = Len(log) => (gap /\ gap_start = x /\ read_offset = x + 1)
      /\ \A k \in (j + 1)..Len(log) :
            log[k].msg = "Valid entry" =>
              /\ CompleteAt(log[k].at)
              /\ events[log[k].at].raw = PayloadAt(log[k].at)

(***************************************************************************)
(* C9: after a scan() that returns with a valid header, no object index is *)
(* recorded both in objects_valid and in objects_missing, each index is    *)
(* recorded at most once, and together they are exactly the indices        *)
(* floor(expire_pos / S) .. floor(write_pos / S).                          *)
(***************************************************************************)
ValidIndices == { i \in 0..(NumDataObjects + 1) : obj_name(i) \in Range(objects_valid) }

LacksField ==
  /\ buf # <<>>
  /\ \/ ~ScanField(buf, KwStart).ok
     \/ ~ScanField(buf, KwLength).ok

C10_NoWriteWithoutFields ==
  LacksField => issued = <<>>

(***************************************************************************)
(* C11: for every journal range [s, e), dump followed by undump of the     *)
(* file into an empty pool gives a pool whose journal bytes in [s, e) are  *)
(* the original bytes and whose header has trimmed_pos = expire_pos = s    *)
(* and write_pos = e; also for s < 200 and for a range read that returned  *)
(* fewer than e - s bytes.                                                 *)
(***************************************************************************)
\* the byte at offset o of the file dump wrote: the preamble with the data laid
\* over it, the data, and nothing behind the data
FileByte(o) ==
  IF o < PreambleLen THEN dump_file.text[o + 1]
  ELSE IF journal.s <= o /\ o < journal.s + bl THEN JournalByte(journal.pat, o)
  ELSE NUL

WritesIssued == { k \in DOMAIN issued : issued[k].op = "write" }
HeadersIssued == { k \in DOMAIN issued : issued[k].op = "write_full" }

\* undump of the dumped file is over
UndumpOver == journal # NULL /\ dump_file.fd >= 0 /\ u_pc \in {"returned", "crashed"}

RoundTripOk ==
  /\ u_pc = "returned"
  /\ \E k \in HeadersIssued :
       /\ issued[k].oid = 0
       /\ issued[k].h.magic = CEPH_FS_ONDISK_MAGIC
       /\ issued[k].h.trimmed_pos = journal.s
       /\ issued[k].h.expire_pos = journal.s
       /\ issued[k].h.write_pos = journal.e
  /\ \A x \in journal.s..(journal.e - 1) :
       /\ \E k \in WritesIssued : issued[k].pos <= x /\ x < issued[k].pos + issued[k].l
       /\ FileByte(x) = JournalByte(journal.pat, x)

C11_RoundTrip == UndumpOver => RoundTripOk

(***************************************************************************)
(* C12: running scan() twice on an unchanged pool yields equal reports:    *)
(* the same header_present and header_valid, the same objects_missing and  *)
(* present-object lists, the same ranges_invalid, the same events_valid    *)
(* and events keys; the second run duplicates or accumulates nothing.      *)
(***************************************************************************)
\* both scans have returned 0, the header being valid and no read having
\* failed with an I/O error
SecondScanReturned ==
  first # NULL /\ pc = "done" /\ ret = 0 /\ header_valid /\ IoErrorReads = {}

C12_ScanIdempotent == SecondScanReturned => Report = first

(***************************************************************************)
(* C13: after any scan() that returns, the intervals in ranges_invalid are *)
(* pairwise disjoint and listed in ascending order of their start offset.  *)
(***************************************************************************)
\* [a, b) lies wholly before [c, d); an end of UINT64_MAX is no end
RangeBefore(r1, r2) == r1[2] # UINT64_MAX /\ r1[2] <= r2[1] /\ r1[1] < r2[1]

C13_RangesDisjointSorted ==
  (pc = "done" /\ ret = 0 /\ header_valid /\ IoErrorReads = {}) =>
    \A i, j \in DOMAIN ranges_invalid :
      i < j => RangeBefore(ranges_invalid[i], ranges_invalid[j])

(***************************************************************************)
(* C14: in every state of the scanner, is_healthy() is true exactly when   *)
(* header_present and header_valid are both true and both ranges_invalid   *)
(* and objects_missing are empty.                                          *)
(***************************************************************************)
C14_HealthyDefinition ==
  is_healthy <=> /\ header_present = TRUE
                 /\ header_valid = TRUE
                 /\ Len(ranges_invalid) = 0
                 /\ Len(objects_missing) = 0

\* a scan that has recorded a missing object and no range yet: unhealthy
C14_Witness ==
  /\ header_present /\ header_valid
  /\ ranges_invalid = <<>>
  /\ objects_missing # <<>>
  /\ ~is_healthy

(***************************************************************************)
(* C20: after scan_header, header_valid is true exactly when the header    *)
(* object was read successfully, decoded without error, has the expected   *)
(* magic and satisfies trimmed_pos <= expire_pos <= write_pos; in every    *)
(* reachable state header_valid implies header_present.                    *)
(***************************************************************************)
\* scan_header has run in the current scan
AfterScanHeader == pc \notin {"scan", "scan_header"} /\ reads # <<>>

C20_HeaderValid ==
  /\ AfterScanHeader =>
       (header_valid <=> /\ pool[obj_name(0)].err = 0
                         /\ header_obj.decodes
                         /\ header_obj.magic = CEPH_FS_ONDISK_MAGIC
                         /\ header_obj.trimmed_pos <= header_obj.expire_pos
                         /\ header_obj.expire_pos <= header_obj.write_pos)
  /\ header_valid => header_present

\* a header object that is read and decoded, has the magic, and whose trimmed_pos
\* lies behind its expire_pos
C20_Witness ==
  /\ AfterScanHeader
  /\ header_present
  /\ ~header_valid
  /\ header_obj.decodes
  /\ header_obj.magic = CEPH_FS_ONDISK_MAGIC
  /\ header_obj.trimmed_pos > header_obj.expire_pos

(***************************************************************************)
(* C15: throughout scan_events, whenever a frame header is peeked, the     *)
(* first byte of read_buf is the pool byte stored at stream offset         *)
(* read_offset: the cursor starts at expire_pos with the buffer's first    *)
(* byte being the byte at expire_pos, and every step keeps the relation.   *)
(***************************************************************************)
\* the while loop is about to decode the sentinel and the size from read_buf
PeekingHeader == pc = "while" /\ Len(read_buf) >= SentinelLen + SizeLen

C15_BufferInSync ==
  (PeekingHeader /\ header_valid) =>
    /\ HasByte(read_offset)
    /\ read_buf[1] = PoolByte(read_offset)

(***************************************************************************)
(* C16: if the scan reaches the end of the object range with no gap open,  *)
(* a non-empty residual buffer shorter than the 12-byte frame header and   *)
(* the cursor below write_pos, then a range from the cursor to infinity is *)
(* appended to ranges_invalid, so the report is unhealthy.                 *)
(***************************************************************************)
\* scan() has returned from a scan that began on an object boundary and lost
\* no object, with such a residual buffer
ResidualAtEnd ==
  /\ pc = "done" /\ ret = 0
  /\ header_valid
  /\ header.expire_pos % ObjectSize = 0
  /\ objects_missing = <<>>
  /\ ~gap
  /\ read_buf # <<>>
  /\ Len(read_buf) < SentinelLen + SizeLen
  /\ read_offset < header.write_pos

C16_ResidualReported ==
  ResidualAtEnd =>
    /\ ranges_invalid # <<>>
    /\ ranges_invalid[Len(ranges_invalid)] = << read_offset, UINT64_MAX >>
    /\ ~is_healthy

(***************************************************************************)
(* C17: at every point of a scan the length of read_buf is at most         *)
(* 2 * object_size, for every pool content, including a frame whose        *)
(* sentinel is correct and whose payload_length field is larger than the   *)
(* object size.                                                            *)
(***************************************************************************)
C17_BufferBounded ==
  (header_valid /\ pc \in {"for", "while", "done"}) => Len(read_buf) <= 2 * ObjectSize

(***************************************************************************)
(* C18: for every asynchronous operation the Dumper issues (journal        *)
(* recovery, the range read in dump, the header write_full and each chunk  *)
(* write in undump) and every interleaving of the caller with the worker   *)
(* thread, the caller proceeds past its wait loop only after that          *)
(* operation's callback has fired.                                         *)
(***************************************************************************)
\* the preamble in buf gives both numbers
GoodPreamble ==
  /\ buf # <<>>
  /\ ScanField(buf, KwStart).ok
  /\ ScanField(buf, KwLength).ok

\* the caller is in the wait loop that follows the operation it issued last
Waiting == u_pc \in {"wait_recover", "wait_read", "wait_header", "wait_chunk"}

PreambleStart == ScanField(buf, KwStart).val
PreambleLength == ScanField(buf, KwLength).val

UndumpFinished == u_pc \in {"returned", "crashed"}

\* the operations issued so far are the header and a contiguous run of chunks
IssuedInOrder ==
  /\ issued # <<>> =>
       /\ issued[1].op = "write_full"
       /\ issued[1].oid = 0
       /\ issued[1].h = [magic |-> CEPH_FS_ONDISK_MAGIC, trimmed_pos |-> PreambleStart,
                         expire_pos |-> PreambleStart,
                         write_pos |-> PreambleStart + PreambleLength]
  /\ \A k \in 2..Len(issued) :
       /\ issued[k].op = "write"
       /\ issued[k].l >= 1
       /\ issued[k].l <= MiB
       /\ issued[k].pos = IF k = 2 THEN PreambleStart
                          ELSE issued[k - 1].pos + issued[k - 1].l
       /\ issued[k].pos + issued[k].l <= PreambleStart + PreambleLength

\* at the end the chunks reach start + length; none is issued for length 0
IssuedAll ==
  /\ issued # <<>>
  /\ IF PreambleLength = 0 THEN Len(issued) = 1
     ELSE /\ Len(issued) >= 2
          /\ issued[Len(issued)].pos + issued[Len(issued)].l =
               PreambleStart + PreambleLength

C19_HeaderThenChunks ==
  /\ [](GoodPreamble => /\ IssuedInOrder
                        /\ UndumpFinished => IssuedAll)
  /\ (GoodPreamble ~> UndumpFinished)

\* undump has returned after a header and two chunks, the second a short one
C19_Witness ==
  /\ GoodPreamble
  /\ u_pc = "returned"
  /\ Len(issued) = 3
  /\ issued[2].l = MiB
  /\ issued[3].l < MiB

(***************************************************************************)
(* C21: the gap flag of scan_events is sticky: once set by a missing       *)
(* object, an invalid sentinel or a payload decode failure it is never     *)
(* cleared during that scan, so every scan() that returns after one of the *)
(* three has a non-empty ranges_invalid and is_healthy() false; conversely *)
(* is_healthy() true after a scan implies none of the three was met.       *)
(***************************************************************************)
\* scan_events is in its for loop or in its while loop
InScanEvents == pc \in {"for", "while"}

\* the scan has written one of the three messages
GapEncountered == \E j \in 1..Len(log) : OpensGap(log[j])

GapSticky == (InScanEvents /\ gap) => gap'

C21_GapSticky ==
  /\ [][GapSticky]_vars
  /\ []((InScanEvents /\ GapEncountered) => gap)
  /\ []((pc = "done" /\ GapEncountered) => (ranges_invalid # <<>> /\ ~is_healthy))
  /\ []((pc = "done" /\ is_healthy) => ~GapEncountered)

\* a scan that has returned after a decode failure behind which the loop went on
\* to accept a frame
C21_Witness ==
  /\ pc = "done"
  /\ header_valid
  /\ \E j, k \in 1..Len(log) :
       /\ j < k
       /\ log[j].msg = "Invalid entry"
       /\ log[k].msg = "Valid entry"
  /\ ranges_invalid # <<>>
  /\ ~is_healthy

====
